---------------------------- MODULE Spec2Model ----------------------------
(***************************************************************************)
(* A model of the ubergeekism pipeline (run_all.py) and of the helpers of  *)
(* utils.py it relies on.                                                  *)
(*                                                                         *)
(* Four specifications share the module:                                   *)
(*   SpecAdjacency  utils.adjacency_from_set, one loop iteration per step  *)
(*   SpecFilter     the hull-edge filter of the triangulation phase        *)
(*   SpecPenrose    the Penrose grammar of run_all.py, rewritten and       *)
(*                  interpreted by a turtle with a push/pop stack          *)
(*   Spec        the module-level script of run_all.py, phase by phase  *)
(*                                                                         *)
(* Points are pairs <<x, y>>, segments are pairs <<start, end>> of points, *)
(* Python lists and tuples are sequences, dicts are functions.             *)
(***************************************************************************)
EXTENDS Integers, Sequences, FiniteSets, TLC

\* Longest segment collection given to adjacency_from_set.
MaxSegments == 3
\* Most triangles handed to the hull-edge filter.
MaxTriangles == 2
\* Deepest --depth of the Lindenmayer rewriting.
MaxDepth == 3

\* The corners of the unit square, in rotational order.
Square == << <<0, 0>>, <<1, 0>>, <<1, 1>>, <<0, 1>> >>

Points == {Square[i] : i \in 1..Len(Square)}

Range(s) == {s[i] : i \in 1..Len(s)}

\* Sequences over S of length at most n.
SeqUpTo(S, n) == UNION {[1..k -> S] : k \in 0..n}

\* Sequences over S with no repeated element.
InjSeqs(S) == {s \in SeqUpTo(S, Cardinality(S)) :
                 \A i, j \in 1..Len(s) : i # j => s[i] # s[j]}

-----------------------------------------------------------------------------
(* utils.py *)

\* dict.get(k, []) on a dict of lists.
Get(g, k) == IF k \in DOMAIN g THEN g[k] ELSE <<>>

\* d[k] = v on a dict.
Put(g, k, v) == [x \in (DOMAIN g) \cup {k} |-> IF x = k THEN v ELSE g[x]]

\* The mutated loop body: only the start -> end direction is inserted.
AddSegmentOneWay(g, seg) ==
    Put(g, seg[1], Append(Get(g, seg[1]), seg[2]))

\* The body of the loop of adjacency_from_set, for one segment (start, end).
AddSegment(g, seg) ==
    LET g1 == Put(g, seg[1], Append(Get(g, seg[1]), seg[2]))
    IN  Put(g1, seg[2], Append(Get(g1, seg[2]), seg[1]))

RECURSIVE AdjacencyFrom(_, _, _)
AdjacencyFrom(g, segs, i) ==
    IF i > Len(segs) THEN g ELSE AdjacencyFrom(AddSegment(g, segs[i]), segs, i + 1)

\* adjacency_from_set(segments): the loop run to its end from the empty dict.
adjacency_from_set(segs) == AdjacencyFrom(<<>>, segs, 1)

\* vertices_from_set(segments)
vertices_from_set(segs) ==
    {segs[i][1] : i \in 1..Len(segs)} \cup {segs[i][2] : i \in 1..Len(segs)}

\* zip(a, b): as long as the shorter of the two.
Zip(a, b) ==
    LET n == IF Len(a) < Len(b) THEN Len(a) ELSE Len(b)
    IN  [i \in 1..n |-> <<a[i], b[i]>>]

\* The mutated tour: the consecutive pairs without the last-to-first pair.
TourOpen(lst) == Zip(lst, Tail(lst))

\* tour(lst) for a non-empty list: zip(lst, lst[1:] + [lst[0]]).
\* lst[0] raises IndexError on an empty list: the callers test TourRaises.
tour(lst) == Zip(lst, Tail(lst) \o <<Head(lst)>>)

TourRaises(lst) == Len(lst) = 0

-----------------------------------------------------------------------------
VARIABLES
    adj_segments,   \* the argument of adjacency_from_set
    adj_i,          \* the number of segments the loop has consumed
    adj_graph,      \* the local dict graph
    adj_pc          \* "loop" | "returned"

adjVars == <<adj_segments, adj_i, adj_graph, adj_pc>>

\* Segments over Points, self-loops included (the claim excludes them).
AllSegments == Points \X Points

AdjInit ==
    /\ adj_segments \in SeqUpTo(AllSegments, MaxSegments)
    /\ adj_i = 0
    /\ adj_graph = <<>>
    /\ adj_pc = "loop"

AdjIdle ==
    /\ adj_segments = <<>>
    /\ adj_i = 0
    /\ adj_graph = <<>>
    /\ adj_pc = "idle"

\* One iteration of  for start,end in segments.
AdjIterate ==
    /\ adj_pc = "loop"
    /\ adj_i < Len(adj_segments)
    /\ adj_graph' = AddSegment(adj_graph, adj_segments[adj_i + 1])
    /\ adj_i' = adj_i + 1
    /\ UNCHANGED <<adj_segments, adj_pc>>

\* return graph
AdjReturn ==
    /\ adj_pc = "loop"
    /\ adj_i = Len(adj_segments)
    /\ adj_pc' = "returned"
    /\ UNCHANGED <<adj_segments, adj_i, adj_graph>>

-----------------------------------------------------------------------------
(* run_all.py, TRIANGULATION: the hull-edge filter *)

\* A triangle is a tuple of three distinct points.
Triangles == {t \in Points \X Points \X Points :
                t[1] # t[2] /\ t[2] # t[3] /\ t[1] # t[3]}

\* The mutated test: only the orientation (p,q) is looked up.
AdjoinHullOneWay(triangle, edges) ==
    \E i \in 1..Len(tour(triangle)) : tour(triangle)[i] \in Range(edges)

\* adjoin_hull(triangle): some (p,q) of tour(list(triangle)) has (p,q) or
\* (q,p) in hull_edges.
adjoin_hull(triangle, edges) ==
    \E i \in 1..Len(tour(triangle)) :
        LET p == tour(triangle)[i][1]
            q == tour(triangle)[i][2]
        IN  <<p, q>> \in Range(edges) \/ <<q, p>> \in Range(edges)

\* list(filter_if_not(adjoin_hull, triangles)): itertools.ifilterfalse keeps,
\* in order, the items for which the predicate is false.
filter_if_not(triangles, edges) ==
    LET Keep(t) == ~adjoin_hull(t, edges)
    IN  SelectSeq(triangles, Keep)

\* The mutated hull edge list: no wrap-around pair.
HullEdgesOpen(h) == TourOpen(h)

\* hull_edges = list(utils.tour(hull)), for a non-empty hull.
HullEdges(h) == tour(h)

\* triangulation.edges_of(triangulated): the edges of the kept triangles.
edges_of(triangulated) ==
    UNION {Range(tour(triangulated[i])) : i \in 1..Len(triangulated)}

VARIABLES
    flt_hull,           \* hull, as returned by hull.convex_hull
    flt_triangles,      \* triangles, as returned by delaunay_bowyer_watson
    flt_hull_edges,     \* hull_edges
    flt_triangulated,   \* triangulated
    flt_edges,          \* triangulation_edges
    flt_pc              \* "hull" | "filter" | "edges" | "done" | "IndexError"

fltVars == <<flt_hull, flt_triangles, flt_hull_edges, flt_triangulated,
             flt_edges, flt_pc>>

FltInit ==
    /\ flt_hull \in InjSeqs(Points)
    /\ flt_triangles \in SeqUpTo(Triangles, MaxTriangles)
    /\ flt_hull_edges = <<>>
    /\ flt_triangulated = <<>>
    /\ flt_edges = {}
    /\ flt_pc = "hull"

FltIdle ==
    /\ flt_hull = <<>>
    /\ flt_triangles = <<>>
    /\ flt_hull_edges = <<>>
    /\ flt_triangulated = <<>>
    /\ flt_edges = {}
    /\ flt_pc = "idle"

\* hull_edges = list(utils.tour(hull)); tour raises IndexError on an empty hull.
FltHullEdges ==
    /\ flt_pc = "hull"
    /\ IF TourRaises(flt_hull)
       THEN /\ flt_pc' = "IndexError"
            /\ UNCHANGED flt_hull_edges
       ELSE /\ flt_hull_edges' = HullEdges(flt_hull)
            /\ flt_pc' = "filter"
    /\ UNCHANGED <<flt_hull, flt_triangles, flt_triangulated, flt_edges>>

\* triangulated = list(filter_if_not(adjoin_hull, triangles))
FltFilter ==
    /\ flt_pc = "filter"
    /\ flt_triangulated' = filter_if_not(flt_triangles, flt_hull_edges)
    /\ flt_pc' = "edges"
    /\ UNCHANGED <<flt_hull, flt_triangles, flt_hull_edges, flt_edges>>

\* triangulation_edges = triangulation.edges_of(triangulated)
FltEdgesOf ==
    /\ flt_pc = "edges"
    /\ flt_edges' = edges_of(flt_triangulated)
    /\ flt_pc' = "done"
    /\ UNCHANGED <<flt_hull, flt_triangles, flt_hull_edges, flt_triangulated>>

-----------------------------------------------------------------------------
(* run_all.py, PENROSE TILING: the grammar given to DumpTurtleLSystem *)

\* A string is a sequence of one-character strings.

\* axiom="[X]++[X]++[X]++[X]++[X]"
Axiom ==
    <<"[", "X", "]", "+", "+", "[", "X", "]", "+", "+", "[", "X", "]", "+",
      "+", "[", "X", "]", "+", "+", "[", "X", "]">>

RuleW ==
    <<"Y", "F", "+", "+", "Z", "F", "-", "-", "-", "-", "X", "F", "[", "-",
      "Y", "F", "-", "-", "-", "-", "W", "F", "]", "+", "+">>

RuleX ==
    <<"+", "Y", "F", "-", "-", "Z", "F", "[", "-", "-", "-", "W", "F", "-",
      "-", "X", "F", "]", "+">>

RuleY ==
    <<"-", "W", "F", "+", "+", "X", "F", "[", "+", "+", "+", "Y", "F", "+",
      "+", "Z", "F", "]", "-">>

RuleZ ==
    <<"-", "-", "Y", "F", "+", "+", "+", "+", "W", "F", "[", "+", "Z", "F",
      "+", "+", "+", "+", "X", "F", "]", "-", "-", "X", "F">>

\* The rule of X with its push symbol lost.
RuleXNoPush ==
    <<"+", "Y", "F", "-", "-", "Z", "F", "-", "-", "-", "W", "F", "-", "-",
      "X", "F", "]", "+">>

\* The mutated rules: X pops a state it never pushed.
PenroseRulesNoPush ==
    [F |-> <<>>, W |-> RuleW, X |-> RuleXNoPush, Y |-> RuleY, Z |-> RuleZ]

\* rules={'F': "", 'W': ..., 'X': ..., 'Y': ..., 'Z': ...}
PenroseRules ==
    [F |-> <<>>, W |-> RuleW, X |-> RuleX, Y |-> RuleY, Z |-> RuleZ]

\* angle=36, in degrees
Angle == 36

\* A symbol that is a key of the rules is replaced by its rule's string, any
\* other symbol passes through.
RewriteSymbol(rules, c) == IF c \in DOMAIN rules THEN rules[c] ELSE <<c>>

\* One simultaneous rewriting of s[lo..hi].
RECURSIVE RewriteRange(_, _, _, _)
RewriteRange(rules, s, lo, hi) ==
    IF lo > hi THEN <<>>
    ELSE IF lo = hi THEN RewriteSymbol(rules, s[lo])
    ELSE LET mid == (lo + hi) \div 2
         IN  RewriteRange(rules, s, lo, mid) \o RewriteRange(rules, s, mid + 1, hi)

Rewrite(rules, s) == RewriteRange(rules, s, 1, Len(s))

\* The position after one step of the turtle along heading h (a multiple of
\* 36 degrees): the net number of steps along each of the five directions
\* 0, 36, ..., 144 degrees, a step along h + 180 counting as -1 along h.
Forward(pos, h) ==
    LET k == h \div Angle
    IN  [pos EXCEPT ![k % 5] = @ + (IF k < 5 THEN 1 ELSE -1)]

VARIABLES
    pen_depth,      \* args.depth
    pen_gen,        \* rewritings done so far
    pen_str,        \* the string, rewritten pen_gen times
    pen_i,          \* symbols interpreted so far
    pen_heading,    \* the turtle's heading, in degrees
    pen_pos,        \* the turtle's position
    pen_stack,      \* the saved turtle states
    pen_drawn,      \* segments emitted
    pen_pc          \* "expand" | "draw" | "done" | "underflow"

penVars == <<pen_depth, pen_gen, pen_str, pen_i, pen_heading, pen_pos,
             pen_stack, pen_drawn, pen_pc>>

Origin == [k \in 0..4 |-> 0]

PenInit ==
    /\ pen_depth \in 0..MaxDepth
    /\ pen_gen = 0
    /\ pen_str = Axiom
    /\ pen_i = 0
    /\ pen_heading = 0
    /\ pen_pos = Origin
    /\ pen_stack = <<>>
    /\ pen_drawn = 0
    /\ pen_pc = "expand"

PenIdle ==
    /\ pen_depth = 0
    /\ pen_gen = 0
    /\ pen_str = <<>>
    /\ pen_i = 0
    /\ pen_heading = 0
    /\ pen_pos = Origin
    /\ pen_stack = <<>>
    /\ pen_drawn = 0
    /\ pen_pc = "idle"

\* One generation of penrose.draw(depth)'s rewriting.
PenExpand ==
    /\ pen_pc = "expand"
    /\ pen_gen < pen_depth
    /\ pen_str' = Rewrite(PenroseRules, pen_str)
    /\ pen_gen' = pen_gen + 1
    /\ UNCHANGED <<pen_depth, pen_i, pen_heading, pen_pos, pen_stack,
                   pen_drawn, pen_pc>>

\* The rewriting is over: the turtle starts on the string.
PenStartDraw ==
    /\ pen_pc = "expand"
    /\ pen_gen = pen_depth
    /\ pen_pc' = "draw"
    /\ UNCHANGED <<pen_depth, pen_gen, pen_str, pen_i, pen_heading, pen_pos,
                   pen_stack, pen_drawn>>

\* The turtle interprets the next symbol.
PenSymbol ==
    /\ pen_pc = "draw"
    /\ pen_i < Len(pen_str)
    /\ LET c == pen_str[pen_i + 1]
       IN  /\ pen_heading' =
                 CASE c = "+" -> (pen_heading + Angle) % 360
                   [] c = "-" -> (pen_heading + 360 - Angle) % 360
                   [] c = "]" /\ pen_stack # <<>> ->
                          pen_stack[Len(pen_stack)].heading
                   [] OTHER -> pen_heading
           /\ pen_pos' =
                 CASE c = "F" -> Forward(pen_pos, pen_heading)
                   [] c = "]" /\ pen_stack # <<>> ->
                          pen_stack[Len(pen_stack)].pos
                   [] OTHER -> pen_pos
           /\ pen_drawn' = IF c = "F" THEN pen_drawn + 1 ELSE pen_drawn
           /\ pen_stack' =
                 CASE c = "[" ->
                          Append(pen_stack,
                                 [heading |-> pen_heading, pos |-> pen_pos])
                   [] c = "]" /\ pen_stack # <<>> ->
                          SubSeq(pen_stack, 1, Len(pen_stack) - 1)
                   [] OTHER -> pen_stack
           /\ pen_pc' = IF c = "]" /\ pen_stack = <<>> THEN "underflow"
                        ELSE "draw"
    /\ pen_i' = pen_i + 1
    /\ UNCHANGED <<pen_depth, pen_gen, pen_str>>

\* The string is exhausted.
PenFinish ==
    /\ pen_pc = "draw"
    /\ pen_i = Len(pen_str)
    /\ pen_pc' = "done"
    /\ UNCHANGED <<pen_depth, pen_gen, pen_str, pen_i, pen_heading, pen_pos,
                   pen_stack, pen_drawn>>

-----------------------------------------------------------------------------
(* run_all.py: the module-level script *)

\* Python's None as an option value.
None == "None"

\* Python truth of an option value: None and the empty string are false.
Truthy(x) == x # None /\ x # ""

\* error_codes = {"NOTSP":100}
error_codes == [NOTSP |-> 100]

\* The key looked up on the error path: error_codes["NO-TSP"].
NoTspKey == "NO-TSP"

\* sys.exit(codes[key]): the lookup raises KeyError before sys.exit is
\* called when key is no key of codes; the interpreter then ends with
\* status 1.
ExitWith(codes, key) ==
    IF key \in DOMAIN codes
    THEN [kind |-> "SystemExit", code |-> codes[key]]
    ELSE [kind |-> "KeyError", code |-> 1]

Running == [kind |-> "running", code |-> 0]
Finished == [kind |-> "finished", code |-> 0]

\* args.tour: the default [None], or the files given (nargs="*").
TourOptions == {<<None>>, <<>>, <<"t1">>, <<"t1", "t2">>, <<"t2", "t1">>}

ArgSpace ==
    [penrose : {None, "p1"},
     notsp : BOOLEAN,
     tour : TourOptions,
     pheromones : {None, "", "m1"},
     triangulation : {None, "g1"}]

\* if args.tour == [None] or not args.pheromones
NoTspInvalid(a) == a.tour = <<None>> \/ ~Truthy(a.pheromones)

\* utils.load_points(file): the points of the file.
load_points(file) ==
    IF file = "t1" THEN <<Square[1], Square[2], Square[3]>>
    ELSE <<Square[4], Square[1]>>

\* utils.load_matrix(file): the pheromone table of the file.
load_matrix(file) == [source |-> "load_matrix", file |-> file]

\* The table ants.search returns.
SearchedPhero == [source |-> "ants.search", file |-> ""]

\* phero before any assignment.
NoPhero == [source |-> "unbound", file |-> ""]

\* The mutated loading of the tours: only the first file is loaded.
LoadedToursFirst(a) ==
    IF a.tour # <<None>> /\ a.tour # <<>> THEN <<load_points(a.tour[1])>> ELSE <<>>

\* trajs after  trajs = [] ; if args.tour != [None]: for tour in args.tour:
\* trajs.append(utils.load_points(tour))
LoadedTours(a) ==
    IF a.tour # <<None>>
    THEN [i \in 1..Len(a.tour) |-> load_points(a.tour[i])]
    ELSE <<>>

\* The segment collections a tiling file or a drawing yields here: one side
\* of the unit square, two sides with the first given in both orientations,
\* and the whole square.
Tilings ==
    { << <<Square[1], Square[2]>> >>,
      << <<Square[1], Square[2]>>, <<Square[2], Square[1]>>,
         <<Square[2], Square[3]>> >>,
      << <<Square[1], Square[2]>>, <<Square[2], Square[3]>>,
         <<Square[3], Square[4]>>, <<Square[4], Square[1]>> >> }

\* The permutations ants.search may return: every vertex of g exactly once.
VertexOrders(g) == {q \in InjSeqs(DOMAIN g) : Range(q) = DOMAIN g}

\* The simple walks of g from s to e along its edges.
Walks(g, s, e) ==
    {w \in InjSeqs(DOMAIN g) :
        /\ Len(w) >= 1
        /\ w[1] = s
        /\ w[Len(w)] = e
        /\ \A i \in 1..(Len(w) - 1) : w[i + 1] \in Range(g[w[i]])}

\* shortpath.astar(G, start, end): the lowest-cost walks from start to end,
\* both included (every edge here has length 1).
astar(g, s, e) ==
    {w \in Walks(g, s, e) : \A v \in Walks(g, s, e) : Len(w) <= Len(v)}

\* traj += p
ExtendTraj(t, path) == t \o path

\* hull.convex_hull(list(points)) for corners of the unit square: the corners
\* in rotational order.
convex_hull(points) ==
    LET In(q) == q \in points
    IN  SelectSeq(Square, In)

\* triangulation.delaunay_bowyer_watson(points) for corners of the unit
\* square: nothing for fewer than three points, the one triangle of three,
\* and for the four corners the split along either diagonal.
delaunay_bowyer_watson(points) ==
    IF Cardinality(points) < 3 THEN {<<>>}
    ELSE IF Cardinality(points) = 3
         THEN {<< <<convex_hull(points)[1], convex_hull(points)[2],
                     convex_hull(points)[3]>> >>}
         ELSE {<< <<Square[1], Square[2], Square[3]>>,
                  <<Square[1], Square[3], Square[4]>> >>,
               << <<Square[1], Square[2], Square[4]>>,
                  <<Square[2], Square[3], Square[4]>> >>}

VARIABLES
    args,                   \* the parsed options
    pc,                     \* the phase the script is in
    penrose_segments,       \* penrose_segments
    trajs,                  \* trajs
    phero,                  \* phero
    G,                      \* G
    best,                   \* best["permutation"]
    tour_i,                 \* pairs of utils.tour(best) consumed
    traj,                   \* traj
    calls,                  \* the calls of shortpath.astar, with their results
    triangulation_edges,    \* triangulation_edges
    removed,                \* len(triangles) - len(triangulated)
    files,                  \* the artifact files written
    started,                \* the components invoked
    exit,                   \* how the process ended
    plotted                 \* what the plot phase was handed

runVars == <<args, pc, penrose_segments, trajs, phero, G, best, tour_i, traj,
             calls, triangulation_edges, removed, files, started, exit,
             plotted>>

NothingPlotted == [phero |-> NoPhero, trajs |-> <<>>]

RunStart ==
    /\ penrose_segments = <<>>
    /\ trajs = <<>>
    /\ phero = NoPhero
    /\ G = <<>>
    /\ best = <<>>
    /\ tour_i = 0
    /\ traj = <<>>
    /\ calls = <<>>
    /\ triangulation_edges = {}
    /\ removed = 0
    /\ files = {}
    /\ started = {}
    /\ exit = Running
    /\ plotted = NothingPlotted

RunInit ==
    /\ args \in ArgSpace
    /\ pc = "tiling"
    /\ RunStart

RunIdle ==
    /\ args = [penrose |-> None, notsp |-> FALSE, tour |-> <<None>>,
               pheromones |-> None, triangulation |-> None]
    /\ pc = "idle"
    /\ RunStart

\* if args.penrose: penrose_segments = utils.load_segments(args.penrose)
RunLoadPenrose ==
    /\ pc = "tiling"
    /\ Truthy(args.penrose)
    /\ penrose_segments' \in Tilings
    /\ pc' = "tours"
    /\ UNCHANGED <<args, trajs, phero, G, best, tour_i, traj, calls,
                   triangulation_edges, removed, files, started, exit, plotted>>

\* else: penrose.draw(depth), the segments written to d<depth>_penrose.segments
RunDrawPenrose ==
    /\ pc = "tiling"
    /\ ~Truthy(args.penrose)
    /\ started' = started \cup {"tiling"}
    /\ penrose_segments' \in Tilings
    /\ files' = files \cup {"penrose.segments"}
    /\ pc' = "tours"
    /\ UNCHANGED <<args, trajs, phero, G, best, tour_i, traj, calls,
                   triangulation_edges, removed, exit, plotted>>

\* trajs = [] and the loading of the --tour files
RunLoadTours ==
    /\ pc = "tours"
    /\ trajs' = LoadedTours(args)
    /\ pc' = "tsp"
    /\ UNCHANGED <<args, penrose_segments, phero, G, best, tour_i, traj, calls,
                   triangulation_edges, removed, files, started, exit, plotted>>

\* if args.notsp: the check of the options, then the loading of the matrix
RunNoTsp ==
    /\ pc = "tsp"
    /\ args.notsp
    /\ IF NoTspInvalid(args)
       THEN /\ exit' = ExitWith(error_codes, NoTspKey)
            /\ pc' = "exited"
            /\ UNCHANGED phero
       ELSE /\ phero' = IF Truthy(args.pheromones)
                        THEN load_matrix(args.pheromones) ELSE phero
            /\ pc' = "triangulation"
            /\ UNCHANGED exit
    /\ UNCHANGED <<args, penrose_segments, trajs, G, best, tour_i, traj, calls,
                   triangulation_edges, removed, files, started, plotted>>

\* else: G = utils.adjacency_from_set(penrose_segments); best,phero =
\* ants.search(G, ...); traj = []
RunSolveTsp ==
    /\ pc = "tsp"
    /\ ~args.notsp
    /\ G' = adjacency_from_set(penrose_segments)
    /\ best' \in VertexOrders(G')
    /\ phero' = SearchedPhero
    /\ traj' = <<>>
    /\ tour_i' = 0
    /\ started' = started \cup {"graph", "aco"}
    /\ pc' = "astar"
    /\ UNCHANGED <<args, penrose_segments, trajs, calls, triangulation_edges,
                   removed, files, exit, plotted>>

\* One iteration of  for start,end in utils.tour(best["permutation"]):
\* p,c = shortpath.astar(G, start, end); traj += p
RunAstar ==
    /\ pc = "astar"
    /\ tour_i < Len(tour(best))
    /\ LET start == tour(best)[tour_i + 1][1]
           end == tour(best)[tour_i + 1][2]
       IN  \E path \in astar(G, start, end) :
              /\ calls' = Append(calls, [start |-> start, end |-> end,
                                         path |-> path])
              /\ traj' = ExtendTraj(traj, path)
    /\ tour_i' = tour_i + 1
    /\ started' = started \cup {"astar"}
    /\ UNCHANGED <<args, pc, penrose_segments, trajs, phero, G, best,
                   triangulation_edges, removed, files, exit, plotted>>

\* trajs.append(traj), then d<depth>_tour.points and d<depth>_pheromones.mat
\* are written
RunSaveTsp ==
    /\ pc = "astar"
    /\ tour_i = Len(tour(best))
    /\ trajs' = Append(trajs, traj)
    /\ files' = files \cup {"tour.points", "pheromones.mat"}
    /\ pc' = "triangulation"
    /\ UNCHANGED <<args, penrose_segments, phero, G, best, tour_i, traj, calls,
                   triangulation_edges, removed, started, exit, plotted>>

\* if args.triangulation: triangulation_edges = utils.load_segments(...)
RunLoadTriangulation ==
    /\ pc = "triangulation"
    /\ Truthy(args.triangulation)
    /\ triangulation_edges' \in {{}, {<<Square[1], Square[3]>>}}
    /\ pc' = "plot"
    /\ UNCHANGED <<args, penrose_segments, trajs, phero, G, best, tour_i, traj,
                   calls, removed, files, started, exit, plotted>>

\* else: the Delaunay triangulation and the hull of the vertices, the
\* hull-edge filter, edges_of, d<depth>_triangulation.segments written
RunComputeTriangulation ==
    /\ pc = "triangulation"
    /\ ~Truthy(args.triangulation)
    /\ LET points == vertices_from_set(penrose_segments)
           hull == convex_hull(points)
       IN  \E triangles \in delaunay_bowyer_watson(points) :
              IF TourRaises(hull)
              THEN /\ exit' = [kind |-> "IndexError", code |-> 1]
                   /\ pc' = "exited"
                   /\ UNCHANGED <<triangulation_edges, removed, files>>
              ELSE LET triangulated ==
                           filter_if_not(triangles, HullEdges(hull))
                   IN  /\ triangulation_edges' = edges_of(triangulated)
                       /\ removed' = Len(triangles) - Len(triangulated)
                       /\ files' = files \cup {"triangulation.segments"}
                       /\ pc' = "plot"
                       /\ UNCHANGED exit
    /\ started' = started \cup {"delaunay", "hull"}
    /\ UNCHANGED <<args, penrose_segments, trajs, phero, G, best, tour_i, traj,
                   calls, plotted>>

\* The plot phase: phero and every traj of trajs are handed to uberplot.
\* Reading phero while it is unbound raises NameError.
RunPlot ==
    /\ pc = "plot"
    /\ IF phero = NoPhero
       THEN /\ exit' = [kind |-> "NameError", code |-> 1]
            /\ pc' = "exited"
            /\ UNCHANGED plotted
       ELSE /\ plotted' = [phero |-> phero, trajs |-> trajs]
            /\ exit' = Finished
            /\ pc' = "done"
    /\ UNCHANGED <<args, penrose_segments, trajs, phero, G, best, tour_i, traj,
                   calls, triangulation_edges, removed, files, started>>

-----------------------------------------------------------------------------
vars == <<adjVars, fltVars, penVars, runVars>>

InitAdjacency == AdjInit /\ FltIdle /\ PenIdle /\ RunIdle

NextAdjacency ==
    \/ AdjIterate /\ UNCHANGED <<fltVars, penVars, runVars>>
    \/ AdjReturn /\ UNCHANGED <<fltVars, penVars, runVars>>

SpecAdjacency == InitAdjacency /\ [][NextAdjacency]_vars

InitFilter == FltInit /\ AdjIdle /\ PenIdle /\ RunIdle

NextFilter ==
    \/ FltHullEdges /\ UNCHANGED <<adjVars, penVars, runVars>>
    \/ FltFilter /\ UNCHANGED <<adjVars, penVars, runVars>>
    \/ FltEdgesOf /\ UNCHANGED <<adjVars, penVars, runVars>>

SpecFilter == InitFilter /\ [][NextFilter]_vars

InitPenrose == PenInit /\ AdjIdle /\ FltIdle /\ RunIdle

NextPenrose ==
    \/ PenExpand /\ UNCHANGED <<adjVars, fltVars, runVars>>
    \/ PenStartDraw /\ UNCHANGED <<adjVars, fltVars, runVars>>
    \/ PenSymbol /\ UNCHANGED <<adjVars, fltVars, runVars>>
    \/ PenFinish /\ UNCHANGED <<adjVars, fltVars, runVars>>

SpecPenrose == InitPenrose /\ [][NextPenrose]_vars

Init == RunInit /\ AdjIdle /\ FltIdle /\ PenIdle

Next ==
    \/ RunLoadPenrose /\ UNCHANGED <<adjVars, fltVars, penVars>>
    \/ RunDrawPenrose /\ UNCHANGED <<adjVars, fltVars, penVars>>
    \/ RunLoadTours /\ UNCHANGED <<adjVars, fltVars, penVars>>
    \/ RunNoTsp /\ UNCHANGED <<adjVars, fltVars, penVars>>
    \/ RunSolveTsp /\ UNCHANGED <<adjVars, fltVars, penVars>>
    \/ RunAstar /\ UNCHANGED <<adjVars, fltVars, penVars>>
    \/ RunSaveTsp /\ UNCHANGED <<adjVars, fltVars, penVars>>
    \/ RunLoadTriangulation /\ UNCHANGED <<adjVars, fltVars, penVars>>
    \/ RunComputeTriangulation /\ UNCHANGED <<adjVars, fltVars, penVars>>
    \/ RunPlot /\ UNCHANGED <<adjVars, fltVars, penVars>>

Spec == Init /\ [][Next]_vars

-----------------------------------------------------------------------------
\* Occurrences of x in the sequence s.
Count(s, x) == Cardinality({i \in 1..Len(s) : s[i] = x})

\* Input segments among the first n joining a and b, in either orientation.
Joining(segs, n, a, b) ==
    Cardinality({i \in 1..n : segs[i] = <<a, b>> \/ segs[i] = <<b, a>>})

DistinctEndpoints(segs) == \A i \in 1..Len(segs) : segs[i][1] # segs[i][2]

\* C2: for segments with distinct endpoints, after every iteration (and so
\* in the returned graph) b occurs in graph[a] as often as a occurs in
\* graph[b], and as often as the consumed segments join a and b.
C2_Symmetric ==
    (adj_pc \in {"loop", "returned"} /\ DistinctEndpoints(adj_segments)) =>
        \A a, b \in Points :
            /\ Count(Get(adj_graph, a), b) = Count(Get(adj_graph, b), a)
            /\ Count(Get(adj_graph, a), b) = Joining(adj_segments, adj_i, a, b)

\* The same segment given twice, once in each orientation: parallel entries.
C2_Witness ==
    /\ adj_pc = "returned"
    /\ DistinctEndpoints(adj_segments)
    /\ \E a, b \in Points : a # b /\ Count(Get(adj_graph, a), b) = 2
                              /\ Count(Get(adj_graph, b), a) = 2

-----------------------------------------------------------------------------
\* Triangle t shares an edge with the closed polygon h: two of its vertices
\* are cyclically consecutive in h, in one order or the other.
SharesHullEdge(t, h) ==
    \E i \in 1..Len(h) : \E j, k \in 1..3 :
        /\ j # k
        /\ t[j] = h[i]
        /\ t[k] = h[(i % Len(h)) + 1]

\* Positions of the triangles that share no edge with the hull.
Interior(ts, h) == {i \in 1..Len(ts) : ~SharesHullEdge(ts[i], h)}

\* C3: once the filter has run, a triangle is in the filtered result iff no
\* edge of it, in either orientation, is a hull edge (wrap-around pair
\* included), and the result keeps one entry per such triangle.
C3_FilterExact ==
    flt_pc \in {"edges", "done"} =>
        /\ \A t \in Range(flt_triangles) :
               t \in Range(flt_triangulated) <=> ~SharesHullEdge(t, flt_hull)
        /\ Range(flt_triangulated) \subseteq Range(flt_triangles)
        /\ Len(flt_triangulated) = Cardinality(Interior(flt_triangles, flt_hull))

\* Triangle t has two vertices consecutive in h without wrapping around.
SharesOpenEdge(t, h) ==
    \E i \in 1..(Len(h) - 1) : \E j, k \in 1..3 :
        j # k /\ t[j] = h[i] /\ t[k] = h[i + 1]

\* Two triangles are filtered and one whose only hull edge is the
\* wrap-around pair is removed.
C3_Witness ==
    /\ flt_pc = "done"
    /\ Len(flt_triangles) = 2
    /\ \E i \in 1..2 :
          /\ flt_triangles[i] \notin Range(flt_triangulated)
          /\ ~SharesOpenEdge(flt_triangles[i], flt_hull)

\* One of two triangles is kept, the other removed.
C3_Mixed ==
    /\ flt_pc = "done"
    /\ Len(flt_triangles) = 2
    /\ Len(flt_triangulated) = 1

\* Two corners joined by a side of the unit square.
SideOfSquare(p, q) ==
    \/ p[1] = q[1] /\ p[2] # q[2]
    \/ p[1] # q[1] /\ p[2] = q[2]

\* The four corners in rotational order (either direction, any start).
RotationalHull(h) ==
    /\ Len(h) = 4
    /\ Range(h) = Points
    /\ \A i \in 1..4 : SideOfSquare(h[i], h[(i % 4) + 1])

\* Two triangles splitting the square along a diagonal.
DiagonalSplit(ts) ==
    /\ Len(ts) = 2
    /\ Range(ts[1]) \cup Range(ts[2]) = Points
    /\ \E p, q \in Points :
          /\ p # q
          /\ ~SideOfSquare(p, q)
          /\ Range(ts[1]) \cap Range(ts[2]) = {p, q}

\* C6: in the unit-square scenario the filter removes both triangles and
\* edges_of is given no triangle, so there are no interior edges.
C6_UnitSquare ==
    (RotationalHull(flt_hull) /\ DiagonalSplit(flt_triangles)) =>
        /\ flt_pc \in {"edges", "done"} => flt_triangulated = <<>>
        /\ flt_pc = "done" => flt_edges = {}

C6_Witness ==
    /\ RotationalHull(flt_hull)
    /\ DiagonalSplit(flt_triangles)
    /\ flt_pc = "done"
    /\ flt_triangulated = <<>>

-----------------------------------------------------------------------------
\* Occurrences of symbol c among the first n symbols of s.
Occurrences(s, n, c) == Cardinality({i \in 1..n : s[i] = c})

\* Pushes minus pops among the first n symbols of s.
Balance(s, n) == Occurrences(s, n, "[") - Occurrences(s, n, "]")

\* C10: at every depth, every prefix of the rewritten Penrose string the
\* turtle has interpreted holds at least as many '[' as ']', the turtle never
\* pops an empty stack, its stack holds exactly the unmatched pushes, and
\* when the string is exhausted the counts are equal and the stack is empty.
C10_Balanced ==
    /\ pen_pc # "underflow"
    /\ pen_pc \in {"draw", "done"} =>
          /\ Balance(pen_str, pen_i) >= 0
          /\ Len(pen_stack) = Balance(pen_str, pen_i)
    /\ pen_pc = "done" =>
          /\ pen_i = Len(pen_str)
          /\ Balance(pen_str, Len(pen_str)) = 0
          /\ pen_stack = <<>>

\* A rewritten string (depth >= 1) interpreted to its end, pops executed.
C10_Witness ==
    /\ pen_pc = "done"
    /\ pen_depth >= 1
    /\ pen_gen = pen_depth
    /\ Occurrences(pen_str, Len(pen_str), "]") > 5
    /\ pen_drawn > 0

-----------------------------------------------------------------------------
\* No two adjacent positions of t hold the same point.
NoAdjacentRepeat(t) == \A i \in 1..(Len(t) - 1) : t[i] # t[i + 1]

\* C1: the assembled trajectory never holds the same point at two adjacent
\* positions (the joint of two consecutive sub-paths appears once).
C1_NoJointDuplicate == NoAdjacentRepeat(traj)

\* The paths of the first k calls, one after the other.
RECURSIVE PathsOf(_, _)
PathsOf(cs, k) == IF k = 0 THEN <<>> ELSE PathsOf(cs, k - 1) \o cs[k].path

\* The TSP phase has started (and, from "triangulation" on, is over).
TspRan == ~args.notsp /\ pc \in {"astar", "triangulation", "plot", "done"}

\* C4: for the permutation of n stops, utils.tour yields n pairs, each stop
\* once as first and once as second component; the i-th call of astar goes
\* from stop i to stop (i+1) mod n and returns a path between them; the
\* trajectory is the in-order concatenation of the returned paths; and when
\* the loop is over exactly n calls were made.
C4_ClosedTour ==
    TspRan =>
        LET n == Len(best)
        IN  /\ n >= 1
            /\ Len(tour(best)) = n
            /\ \A x \in Range(best) :
                  /\ Cardinality({i \in 1..n : tour(best)[i][1] = x}) = 1
                  /\ Cardinality({i \in 1..n : tour(best)[i][2] = x}) = 1
            /\ Len(calls) = tour_i
            /\ tour_i <= n
            /\ \A i \in 1..Len(calls) :
                  /\ calls[i].start = best[i]
                  /\ calls[i].end = best[(i % n) + 1]
                  /\ calls[i].path[1] = calls[i].start
                  /\ calls[i].path[Len(calls[i].path)] = calls[i].end
            /\ traj = PathsOf(calls, Len(calls))
            /\ pc # "astar" =>
                  /\ Len(calls) = n
                  /\ calls[n].end = best[1]
                  /\ trajs[Len(trajs)] = traj

\* A run over the whole square: four calls, the last one back to the first
\* stop, one of them between opposite corners.
C4_Witness ==
    /\ pc = "done"
    /\ ~args.notsp
    /\ Len(best) = 4
    /\ Len(calls) = 4
    /\ calls[4].start = best[4]
    /\ calls[4].end = best[1]
    /\ \E i \in 1..4 : Len(calls[i].path) = 3

\* --notsp without a --tour file or without a --pheromones file.
InvalidOptions == args.notsp /\ (args.tour = <<None>> \/ ~Truthy(args.pheromones))

\* C5: in a run with invalid options no component (tiling, graph builder,
\* ACO, A*, triangulation, hull) is ever started and no artifact file is
\* written.
C5_FailFast == (pc # "idle" /\ InvalidOptions) => started = {} /\ files = {}

\* C7: whenever --pheromones names a file, the table handed to the plot
\* phase is the matrix loaded from that file.
C7_PheromonesLoaded ==
    (pc = "done" /\ args.pheromones # None) =>
        /\ phero = load_matrix(args.pheromones)
        /\ plotted.phero = load_matrix(args.pheromones)

\* The tours of the --tour files, in the order given.
GivenTours == [i \in 1..Len(args.tour) |-> load_points(args.tour[i])]

\* C8: with --notsp, --tour files and a --pheromones file, the graph builder,
\* the ACO solver and A* are never invoked, no tour or pheromone file is
\* written, and from the plot phase on the pheromone table is the loaded one
\* and the trajectories are the loaded tours, in order.
C8_NoTspComputed ==
    (args.notsp /\ args.tour # <<None>> /\ args.pheromones # None) =>
        /\ started \cap {"graph", "aco", "astar"} = {}
        /\ calls = <<>>
        /\ files \cap {"tour.points", "pheromones.mat"} = {}
        /\ pc \in {"plot", "done"} =>
              /\ phero = load_matrix(args.pheromones)
              /\ trajs = GivenTours
        /\ pc = "done" =>
              /\ plotted.phero = load_matrix(args.pheromones)
              /\ plotted.trajs = GivenTours

\* A --notsp run with two tour files that reaches the end of the plot phase.
C8_Witness ==
    /\ pc = "done"
    /\ args.notsp
    /\ args.tour = <<"t2", "t1">>
    /\ args.pheromones = "m1"
    /\ plotted.trajs = <<load_points("t2"), load_points("t1")>>
    /\ plotted.phero = load_matrix("m1")

\* C9: once the --notsp check has run on invalid options, the process has
\* ended through sys.exit with the status error_codes registers, 100.
C9_ExitStatus ==
    (InvalidOptions /\ pc \notin {"idle", "tiling", "tours", "tsp"}) =>
        /\ pc = "exited"
        /\ exit = [kind |-> "SystemExit", code |-> 100]

=============================================================================
